---- MODULE Spec2Model ----
(***************************************************************************)
(* Model of the FastAPI test service: app/main.py (the HTTP application:   *)
(* metadata, CORS policy, the routes "/" and "/health") and wsgi.py (the   *)
(* deployment adapter exposing `application`).                             *)
(*                                                                         *)
(* A request is a record [method, path, origin, cookie, acrm]; a header    *)
(* that is absent is the empty string.  A path is the sequence of its      *)
(* segments after the leading "/", so "/" is <<"">>, "/health" is          *)
(* <<"health">> and "/health/" is <<"health", "">>; PathStr renders it.    *)
(***************************************************************************)
EXTENDS Integers, Sequences, FiniteSets, TLC

VARIABLES openapi_schema, middleware_stack, entry, host, request, outcome

vars == <<openapi_schema, middleware_stack, entry, host, request, outcome>>

\* ---------------------------------------------------------------- bounds
NumOrigins == 1

\* ------------------------------------------------- application metadata
title == "FastAPI Test API"

version == "1.0.0"

docs_url_moved == "/documentation"


docs_url == "/docs"

redoc_url == "/redoc"

openapi_url == "/openapi.json"

swagger_ui_oauth2_redirect_url == "/docs/oauth2-redirect"

redirect_slashes_off == FALSE


redirect_slashes == TRUE

\* ------------------------------------------------------------ CORS policy
allow_origins == {"*"}

allow_credentials == TRUE

allow_methods == {"*"}

allow_headers == {"*"}

ALL_METHODS == {"DELETE", "GET", "HEAD", "OPTIONS", "PATCH", "POST", "PUT"}

\* ------------------------------------------------------------ the inputs
Origin(i) == "https://site" \o ToString(i) \o ".example"

Origins == {""} \cup {Origin(i) : i \in 1..NumOrigins}

Methods == {"GET", "HEAD", "POST", "OPTIONS"}

RequestedMethods == {"", "GET", "PROPFIND"}

Paths ==
  { <<"">>, <<"health">>, <<"docs">>, <<"redoc">>, <<"openapi.json">>,
    <<"docs", "oauth2-redirect">>, <<"health", "">>, <<"nonexistent">> }

Requests ==
  [method : Methods, path : Paths, origin : Origins, cookie : BOOLEAN,
   acrm : RequestedMethods]

Hosts == {"asgi", "wsgi"}

\* -------------------------------------------------------------- responses
NoJson == [k \in {} |-> ""]

NoSchema == [title |-> "", version |-> "", paths |-> {}]

NoHeaders ==
  [acao |-> "", acac |-> "", vary |-> "", allow |-> {}, location |-> ""]

NoRequest ==
  [method |-> "", path |-> <<>>, origin |-> "", cookie |-> FALSE, acrm |-> ""]

NoOutcome ==
  [exc |-> "", status |-> 0, media |-> "", json |-> NoJson, text |-> "",
   schema |-> NoSchema, headers |-> NoHeaders]

JSONResponse(status, content) ==
  [NoOutcome EXCEPT !.status = status, !.media = "application/json",
                    !.json = content]

HTMLResponse(page) ==
  [NoOutcome EXCEPT !.status = 200, !.media = "text/html", !.text = page]

PlainTextResponse(text, status, headers) ==
  [NoOutcome EXCEPT !.status = status, !.media = "text/plain",
                    !.text = text, !.headers = headers]

RedirectResponse(url) ==
  [NoOutcome EXCEPT !.status = 307, !.headers.location = url]

HTTPException(status, detail, allow) ==
  [JSONResponse(status, [detail |-> detail]) EXCEPT !.headers.allow = allow]

TypeError == [NoOutcome EXCEPT !.exc = "TypeError"]

\* ------------------------------------------------------------------ paths
RECURSIVE PathStr(_)
PathStr(segs) ==
  IF segs = <<>> THEN "" ELSE "/" \o Head(segs) \o PathStr(Tail(segs))

EndsWithSlash(segs) == segs # <<>> /\ segs[Len(segs)] = ""

RECURSIVE RStripSlash(_)
RStripSlash(segs) ==
  IF EndsWithSlash(segs) THEN RStripSlash(SubSeq(segs, 1, Len(segs) - 1))
  ELSE segs

\* --------------------------------------------------------------- handlers
root_extra_key ==
  [message |-> "Hello World", docs_url |-> "/docs", health_check |-> "/health",
   version |-> "1.0.0"]


root ==
  [message |-> "Hello World", docs_url |-> "/docs", health_check |-> "/health"]

health_check_unversioned == [status |-> "healthy"]


health_check == [status |-> "healthy", version |-> "1.0.0"]

\* ----------------------------------------------------------------- routes
SetupRoutes_in_schema ==
  << [path |-> openapi_url, methods |-> {"GET", "HEAD"},
      endpoint |-> "openapi", include_in_schema |-> TRUE],
     [path |-> docs_url, methods |-> {"GET", "HEAD"},
      endpoint |-> "swagger_ui_html", include_in_schema |-> TRUE],
     [path |-> swagger_ui_oauth2_redirect_url, methods |-> {"GET", "HEAD"},
      endpoint |-> "swagger_ui_redirect", include_in_schema |-> TRUE],
     [path |-> redoc_url, methods |-> {"GET", "HEAD"},
      endpoint |-> "redoc_html", include_in_schema |-> TRUE] >>


SetupRoutes ==
  << [path |-> openapi_url, methods |-> {"GET", "HEAD"},
      endpoint |-> "openapi", include_in_schema |-> FALSE],
     [path |-> docs_url, methods |-> {"GET", "HEAD"},
      endpoint |-> "swagger_ui_html", include_in_schema |-> FALSE],
     [path |-> swagger_ui_oauth2_redirect_url, methods |-> {"GET", "HEAD"},
      endpoint |-> "swagger_ui_redirect", include_in_schema |-> FALSE],
     [path |-> redoc_url, methods |-> {"GET", "HEAD"},
      endpoint |-> "redoc_html", include_in_schema |-> FALSE] >>

ApiRoutes ==
  << [path |-> "/", methods |-> {"GET"},
      endpoint |-> "root", include_in_schema |-> TRUE],
     [path |-> "/health", methods |-> {"GET"},
      endpoint |-> "health_check", include_in_schema |-> TRUE] >>

routes == SetupRoutes \o ApiRoutes

get_openapi ==
  [title |-> title, version |-> version,
   paths |-> {routes[i].path : i \in {j \in DOMAIN routes :
                                          routes[j].include_in_schema}}]

openapi_stale(cached) ==
  IF cached = NoSchema THEN get_openapi ELSE [cached EXCEPT !.paths = {}]


openapi(cached) == IF cached = NoSchema THEN get_openapi ELSE cached

Matches(route, method, segs) ==
  IF PathStr(segs) # route.path THEN "NONE"
  ELSE IF method \notin route.methods THEN "PARTIAL"
  ELSE "FULL"

FirstMatch(kind, method, segs) ==
  LET hits == {i \in DOMAIN routes : Matches(routes[i], method, segs) = kind}
  IN  IF hits = {} THEN 0 ELSE CHOOSE i \in hits : \A j \in hits : i <= j

Endpoint(name, cached) ==
  CASE name = "root" -> JSONResponse(200, root)
    [] name = "health_check" -> JSONResponse(200, health_check)
    [] name = "openapi" ->
         [NoOutcome EXCEPT !.status = 200, !.media = "application/json",
                           !.schema = openapi(cached)]
    [] name = "swagger_ui_html" -> HTMLResponse("swagger-ui")
    [] name = "swagger_ui_redirect" -> HTMLResponse("oauth2-redirect")
    [] name = "redoc_html" -> HTMLResponse("redoc")

RouteHandle_any_method(route, method, cached) ==
  Endpoint(route.endpoint, cached)


RouteHandle(route, method, cached) ==
  IF method \notin route.methods
  THEN HTTPException(405, "Method Not Allowed", route.methods)
  ELSE Endpoint(route.endpoint, cached)

Redirected(segs) ==
  IF EndsWithSlash(segs) THEN RStripSlash(segs) ELSE segs \o <<"">>

Router(req, cached) ==
  LET full == FirstMatch("FULL", req.method, req.path)
      partial == FirstMatch("PARTIAL", req.method, req.path)
      target == Redirected(req.path)
  IN  IF full # 0 THEN RouteHandle(routes[full], req.method, cached)
      ELSE IF partial # 0 THEN RouteHandle(routes[partial], req.method, cached)
      ELSE IF /\ redirect_slashes
              /\ PathStr(req.path) # "/"
              /\ \E i \in DOMAIN routes :
                    Matches(routes[i], req.method, target) # "NONE"
           THEN RedirectResponse(PathStr(target))
      ELSE HTTPException(404, "Not Found", {})

RouterCachesSchema(req) ==
  LET full == FirstMatch("FULL", req.method, req.path)
  IN  full # 0 /\ routes[full].endpoint = "openapi"

\* ------------------------------------------------------------------- CORS
allow_all_origins == "*" \in allow_origins

cors_methods == IF "*" \in allow_methods THEN ALL_METHODS ELSE allow_methods

preflight_explicit_allow_origin == ~allow_all_origins \/ allow_credentials

is_allowed_origin(origin) == allow_all_origins \/ origin \in allow_origins

IsPreflight(req) == req.method = "OPTIONS" /\ req.acrm # ""

preflight_response(req) ==
  LET allowed == is_allowed_origin(req.origin)
      headers ==
        [NoHeaders EXCEPT
           !.acao = IF allowed /\ preflight_explicit_allow_origin
                    THEN req.origin
                    ELSE IF preflight_explicit_allow_origin THEN "" ELSE "*",
           !.vary = IF preflight_explicit_allow_origin THEN "Origin" ELSE "",
           !.acac = IF allow_credentials THEN "true" ELSE ""]
      badOrigin == ~allowed
      badMethod == req.acrm \notin cors_methods
  IN  IF badOrigin /\ badMethod
      THEN PlainTextResponse("Disallowed CORS origin, method headers", 400,
                             headers)
      ELSE IF badOrigin
      THEN PlainTextResponse("Disallowed CORS origin headers", 400, headers)
      ELSE IF badMethod
      THEN PlainTextResponse("Disallowed CORS method headers", 400, headers)
      ELSE PlainTextResponse("OK", 200, headers)

simple_response_wildcard(req, inner) ==
  [inner EXCEPT !.headers.acao = "*",
                !.headers.acac = IF allow_credentials THEN "true" ELSE ""]


simple_response(req, inner) ==
  LET explicit ==
        \/ allow_all_origins /\ req.cookie
        \/ ~allow_all_origins /\ is_allowed_origin(req.origin)
  IN  [inner EXCEPT
         !.headers.acao = IF explicit THEN req.origin
                          ELSE IF allow_all_origins THEN "*" ELSE "",
         !.headers.acac = IF allow_credentials THEN "true" ELSE "",
         !.headers.vary = IF explicit THEN "Origin" ELSE ""]

CORSMiddleware(req, cached) ==
  IF req.origin = "" THEN Router(req, cached)
  ELSE IF IsPreflight(req) THEN preflight_response(req)
  ELSE simple_response(req, Router(req, cached))

ReachesRouter(req) == req.origin = "" \/ ~IsPreflight(req)

\* ------------------------------------------------------- the two callables
\* app(scope, receive, send): the FastAPI application.
app(nargs, req, cached) ==
  IF nargs # 3 THEN TypeError ELSE CORSMiddleware(req, cached)

\* application(...): WSGIMiddleware(app), which calls the object it wraps
\* as wrapped(environ, start_response).
wsgi_app(nargs, req, cached) ==
  IF nargs # 3 THEN TypeError ELSE app(2, req, cached)

HostArgs(h) == IF h = "wsgi" THEN 2 ELSE 3

\* ---------------------------------------------------------- specification
Init ==
  /\ openapi_schema = NoSchema
  /\ middleware_stack = FALSE
  /\ entry = "none"
  /\ host = "asgi"
  /\ request = NoRequest
  /\ outcome = NoOutcome

\* uvicorn.run(app, ...): the server calls app(scope, receive, send).
Serve(req) ==
  /\ entry' = "app"
  /\ host' = "asgi"
  /\ request' = req
  /\ outcome' = app(3, req, openapi_schema)
  /\ middleware_stack' = TRUE
  /\ openapi_schema' =
       IF ReachesRouter(req) /\ RouterCachesSchema(req)
       THEN openapi(openapi_schema) ELSE openapi_schema

\* A host process looks up `application` and calls it its own way.
HostedDispatch(h, req) ==
  /\ entry' = "application"
  /\ host' = h
  /\ request' = req
  /\ outcome' = wsgi_app(HostArgs(h), req, openapi_schema)
  /\ UNCHANGED <<openapi_schema, middleware_stack>>

Next ==
  \/ \E req \in Requests : Serve(req)
  \/ \E h \in Hosts, req \in Requests : HostedDispatch(h, req)

Spec == Init /\ [][Next]_vars

TypeOK ==
  /\ entry \in {"none", "app", "application"}
  /\ host \in Hosts
  /\ middleware_stack \in BOOLEAN
  /\ request \in Requests \cup {NoRequest}
  /\ outcome.status \in {0, 200, 307, 400, 404, 405}
\* ------------------------------------------------------------- properties
Direct == entry = "app"

Hosted == entry = "application"

FiveDefined == {"/", "/health", "/docs", "/redoc", "/openapi.json"}

RootPayload ==
  [message |-> "Hello World", docs_url |-> "/docs", health_check |-> "/health"]

HealthPayload == [status |-> "healthy", version |-> "1.0.0"]

Payloads == {RootPayload, HealthPayload}

\* C1: every GET request to "/" served by the application, in any state of
\* the service, is answered with status 200 and a JSON body that is exactly
\* {message: "Hello World", docs_url: "/docs", health_check: "/health"}.
C1_RootResponse ==
  (Direct /\ request.method = "GET" /\ PathStr(request.path) = "/")
    => /\ outcome.exc = ""
       /\ outcome.status = 200
       /\ outcome.media = "application/json"
       /\ DOMAIN outcome.json = {"message", "docs_url", "health_check"}
       /\ outcome.json = RootPayload

C1_Witness ==
  /\ Direct /\ request.method = "GET" /\ PathStr(request.path) = "/"
  /\ request.origin # "" /\ request.cookie
  /\ openapi_schema # NoSchema
  /\ outcome.status = 200

\* C2: every GET request to "/health" served by the application, in any
\* state of the service, is answered with status 200 and a JSON body that
\* is exactly {status: "healthy", version: "1.0.0"}.
C2_HealthResponse ==
  (Direct /\ request.method = "GET" /\ PathStr(request.path) = "/health")
    => /\ outcome.exc = ""
       /\ outcome.status = 200
       /\ outcome.media = "application/json"
       /\ DOMAIN outcome.json = {"status", "version"}
       /\ outcome.json = HealthPayload

C2_Witness ==
  /\ Direct /\ request.method = "GET" /\ PathStr(request.path) = "/health"
  /\ request.origin = "" /\ openapi_schema # NoSchema
  /\ outcome.status = 200

\* C3: a request that carries an Origin header is answered with an
\* Access-Control-Allow-Origin header naming that origin or "*", and is
\* never rejected by the CORS policy (no "Disallowed CORS ..." 400).
RejectedByCORS == outcome.status = 400 /\ outcome.media = "text/plain"

C3_OriginGranted ==
  (Direct /\ request.origin # "")
    => /\ outcome.headers.acao \in {request.origin, "*"}
       /\ ~RejectedByCORS

\* C4 as stated: every response carries Access-Control-Allow-Origin, "*"
\* unless the request is credentialed, and then the request's origin.
C4_HeaderOnAllResponses ==
  Direct =>
    outcome.headers.acao = IF request.cookie THEN request.origin ELSE "*"

\* C4 as amended: a response carries Access-Control-Allow-Origin exactly
\* when the request carries an Origin header; on a request that is not a
\* preflight its value is "*" unless the request carries a Cookie header,
\* and then it is the request's origin; on a preflight it is the request's
\* origin or "*".
C4_HeaderIffOrigin ==
  Direct =>
    /\ request.origin = "" => outcome.headers.acao = ""
    /\ (request.origin # "" /\ ~IsPreflight(request))
         => outcome.headers.acao =
              IF request.cookie THEN request.origin ELSE "*"
    /\ (request.origin # "" /\ IsPreflight(request))
         => outcome.headers.acao \in {request.origin, "*"}

C4_Witness ==
  /\ Direct /\ request.origin # "" /\ request.cookie
  /\ ~IsPreflight(request)
  /\ outcome.status = 404
  /\ outcome.headers.acao = request.origin

\* C5: the answer to a request does not depend on the requests served
\* before it: in every reachable state the outcome equals the outcome the
\* freshly constructed service gives to the same request.
C5_SameAsFresh ==
  /\ Direct => outcome = app(3, request, NoSchema)
  /\ Hosted => outcome = wsgi_app(HostArgs(host), request, NoSchema)

C5_Witness ==
  /\ Direct /\ openapi_schema # NoSchema /\ middleware_stack
  /\ request.method = "GET" /\ PathStr(request.path) = openapi_url
  /\ outcome.status = 200 /\ outcome.schema # NoSchema

\* C6: GET /openapi.json is answered with status 200 and a schema whose set
\* of described paths is exactly {"/", "/health"}.
C6_SchemaPaths ==
  (Direct /\ request.method = "GET"
          /\ PathStr(request.path) = "/openapi.json")
    => /\ outcome.status = 200
       /\ outcome.schema.paths = {"/", "/health"}
       /\ outcome.schema.paths \cap {"/docs", "/redoc", "/openapi.json"} = {}

C6_Witness ==
  /\ Direct /\ request.method = "GET"
  /\ PathStr(request.path) = "/openapi.json"
  /\ request.origin # ""
  /\ "/health" \in outcome.schema.paths

WithTrailingSlash ==
  {r \o "/" : r \in FiveDefined \cup {"/docs/oauth2-redirect"}} \ {"//"}

C8_NonGetIs405 ==
  (Direct /\ request.method # "GET"
          /\ PathStr(request.path) \in {"/", "/health"})
    => /\ outcome.status = 405
       /\ outcome.json \notin Payloads

\* C8 as amended: a request to "/" or "/health" with a method other than
\* GET is never answered with the root or health payload; it is answered
\* with 405 "Method Not Allowed", unless it is a CORS preflight (OPTIONS
\* with an Origin and an Access-Control-Request-Method header), which the
\* CORS layer answers itself in plain text with status 200 or 400.
C8_NonGetIs405UnlessPreflight ==
  (Direct /\ request.method # "GET"
          /\ PathStr(request.path) \in {"/", "/health"})
    => /\ outcome.json \notin Payloads
       /\ IF request.origin # "" /\ IsPreflight(request)
          THEN outcome.status \in {200, 400} /\ outcome.media = "text/plain"
          ELSE /\ outcome.status = 405
               /\ outcome.json = [detail |-> "Method Not Allowed"]

C8_Witness ==
  /\ Direct /\ request.method = "HEAD" /\ PathStr(request.path) = "/health"
  /\ outcome.status = 405

\* C9: a request the host dispatches to `application` is answered with the
\* response the application gives to the same request directly.
C9_PassThrough ==
  (Hosted /\ host = "wsgi")
    => outcome = app(3, request, openapi_schema)

\* C10: each path the root response names (docs_url, health_check) answers
\* a GET with status 200, docs_url in the root response is the configured
\* documentation path, and the version in the health response is the
\* version of the application metadata.
Advertised == {root.docs_url, root.health_check}

C10_Advertised ==
  /\ root.docs_url = docs_url
  /\ health_check.version = version
  /\ (Direct /\ request.method = "GET" /\ PathStr(request.path) \in Advertised)
       => outcome.status = 200
  /\ \A a \in Advertised : \E p \in Paths : PathStr(p) = a

C10_Witness ==
  /\ Direct /\ request.method = "GET"
  /\ PathStr(request.path) = root.docs_url
  /\ outcome.status = 200 /\ outcome.media = "text/html"
====
